---- MODULE Spec2Model ----
(***************************************************************************)
(* The hashcat-style rule interpreter of PasswordGuesser                   *)
(* (Online/Model Training/Attack on Rules/hashcat规则攻击.py).             *)
(*                                                                         *)
(* A character is a one-character string; a word, a rule line and a token  *)
(* are sequences of characters.  The alphabet is ASCII: str.upper(),       *)
(* str.lower() and str.islower() map one character to one character.       *)
(***************************************************************************)
EXTENDS Integers, Sequences, FiniteSets, TLC

(***************************************************************************)
(* Bounds of the model.                                                    *)
(***************************************************************************)
MaxWordLen == 2
MaxTokens == 2
MaxLines == 3

(***************************************************************************)
(* Characters: str.lower, str.upper, str.islower, int(c), int(c, 16),      *)
(* str.isspace on one ASCII character.                                     *)
(***************************************************************************)
LowerLetters ==
    <<"a","b","c","d","e","f","g","h","i","j","k","l","m",
      "n","o","p","q","r","s","t","u","v","w","x","y","z">>

UpperLetters ==
    <<"A","B","C","D","E","F","G","H","I","J","K","L","M",
      "N","O","P","Q","R","S","T","U","V","W","X","Y","Z">>

Digits == <<"0","1","2","3","4","5","6","7","8","9">>

IndexIn(s, c) == IF \E k \in 1..Len(s) : s[k] = c
                 THEN CHOOSE k \in 1..Len(s) : s[k] = c
                 ELSE 0

islower(c) == IndexIn(LowerLetters, c) > 0

upper(c) == IF IndexIn(LowerLetters, c) > 0
            THEN UpperLetters[IndexIn(LowerLetters, c)]
            ELSE c

lower(c) == IF IndexIn(UpperLetters, c) > 0
            THEN LowerLetters[IndexIn(UpperLetters, c)]
            ELSE c

isspace(c) == c \in {" ", "\t"}

\* int(c) and int(c, 16) on a one-character string: the value, or -1 where
\* Python raises ValueError.
int(c, base) ==
    IF IndexIn(Digits, c) > 0 THEN IndexIn(Digits, c) - 1
    ELSE IF base = 16 /\ IndexIn(LowerLetters, c) \in 1..6
         THEN 9 + IndexIn(LowerLetters, c)
    ELSE IF base = 16 /\ IndexIn(UpperLetters, c) \in 1..6
         THEN 9 + IndexIn(UpperLetters, c)
    ELSE -1

(***************************************************************************)
(* Sequence helpers: list.reverse, list.pop, list.insert, str.strip,       *)
(* str.split.                                                              *)
(***************************************************************************)
\* [c.lower() for c in s], [c.upper() for c in s] and
\* [c.upper() if c.islower() else c.lower() for c in s]
lower_all(s) == [k \in 1..Len(s) |-> lower(s[k])]

\* [c.swapcase() for c in s] in the place of [c.upper() for c in s]
upper_all_swaps(s) == [k \in 1..Len(s) |-> IF islower(s[k]) THEN upper(s[k])
                                           ELSE lower(s[k])]

upper_all(s) == [k \in 1..Len(s) |-> upper(s[k])]

\* [c.upper() if c.islower() else c for c in s]
toggle_all_upper_only(s) == [k \in 1..Len(s) |-> IF islower(s[k])
                                                 THEN upper(s[k]) ELSE s[k]]

toggle_all(s) == [k \in 1..Len(s) |-> IF islower(s[k]) THEN upper(s[k])
                                      ELSE lower(s[k])]

\* The first character moved to the end.
reverse_rotates(s) == IF s = <<>> THEN s ELSE Tail(s) \o <<Head(s)>>

reverse(s) == [k \in 1..Len(s) |-> s[Len(s) + 1 - k]]

\* list.insert(k, x) for 0 <= k <= len: x lands at zero-based index k.
insert(s, k, x) == SubSeq(s, 1, k) \o <<x>> \o SubSeq(s, k + 1, Len(s))

RECURSIVE lstrip(_)
lstrip(s) == IF s # <<>> /\ isspace(Head(s)) THEN lstrip(Tail(s)) ELSE s

RECURSIVE rstrip(_)
rstrip(s) == IF s # <<>> /\ isspace(s[Len(s)])
             THEN rstrip(SubSeq(s, 1, Len(s) - 1))
             ELSE s

strip(s) == rstrip(lstrip(s))

\* str.split(): cut at runs of whitespace, no empty token.
RECURSIVE SplitFrom(_, _, _)
SplitFrom(s, cur, acc) ==
    IF s = <<>>
    THEN IF cur = <<>> THEN acc ELSE Append(acc, cur)
    ELSE IF isspace(Head(s))
         THEN SplitFrom(Tail(s), <<>>,
                        IF cur = <<>> THEN acc ELSE Append(acc, cur))
         ELSE SplitFrom(Tail(s), Append(cur, Head(s)), acc)

\* rule.split(' '): cut at every single space, and only there.
split_on_space(s) ==
    LET cuts   == {0, Len(s) + 1} \cup {k \in 1..Len(s) : s[k] = " "}
        nth(n) == CHOOSE c \in cuts : Cardinality({d \in cuts : d < c}) = n - 1
    IN  [n \in 1..(Cardinality(cuts) - 1) |->
            SubSeq(s, nth(n) + 1, nth(n + 1) - 1)]

split(s) == SplitFrom(s, <<>>, <<>>)

(***************************************************************************)
(* One iteration of the loop of apply_hashcat_rule: the instruction `part` *)
(* applied to the list `output`.  The outcome is the new list, or the      *)
(* exception that leaves the loop.                                         *)
(***************************************************************************)
Ok(out) == [exc |-> "none", out |-> out]
Raise(e, out) == [exc |-> e, out |-> out]

ToggleChar(c) == IF islower(c) THEN upper(c) ELSE lower(c)

\* The same with pos = int(arg[0]).
TryToggleAtDecimal(output, arg) ==
    IF arg = <<>> THEN Raise("IndexError", output)
    ELSE IF int(arg[1], 10) < 0 THEN Raise("ValueError", output)
    ELSE LET pos == int(arg[1], 10) IN
         IF pos < Len(output)
         THEN Ok([output EXCEPT ![pos + 1] = ToggleChar(output[pos + 1])])
         ELSE Ok(output)

\* try: pos = int(arg[0], 16); if pos < len(output): output[pos] = toggled
TryToggleAt(output, arg) ==
    IF arg = <<>> THEN Raise("IndexError", output)
    ELSE IF int(arg[1], 16) < 0 THEN Raise("ValueError", output)
    ELSE LET pos == int(arg[1], 16) IN
         IF pos < Len(output)
         THEN Ok([output EXCEPT ![pos + 1] = ToggleChar(output[pos + 1])])
         ELSE Ok(output)

\* The same with `if pos < len(output)`: position -1 is the last character.
TryDuplicateAtNoLowerBound(output, arg) ==
    IF arg = <<>> THEN Raise("IndexError", output)
    ELSE IF int(arg[1], 10) < 0 THEN Raise("ValueError", output)
    ELSE LET pos == int(arg[1], 10) - 1 IN
         IF pos < Len(output)
         THEN Ok(insert(output, IF pos < 0 THEN 0 ELSE pos + 1,
                        output[IF pos < 0 THEN Len(output) ELSE pos + 1]))
         ELSE Ok(output)

\* The same with pos = int(arg[0], 16) - 1.
TryDuplicateAtHex(output, arg) ==
    IF arg = <<>> THEN Raise("IndexError", output)
    ELSE IF int(arg[1], 16) < 0 THEN Raise("ValueError", output)
    ELSE LET pos == int(arg[1], 16) - 1 IN
         IF 0 <= pos /\ pos < Len(output)
         THEN Ok(insert(output, pos + 1, output[pos + 1]))
         ELSE Ok(output)

\* The same with pos = int(arg) - 1: the whole argument is the number.
TryDuplicateAtWholeArg(output, arg) ==
    IF arg = <<>> THEN Raise("ValueError", output)
    ELSE IF \E k \in 1..Len(arg) : int(arg[k], 10) < 0
         THEN Raise("ValueError", output)
    ELSE LET pos == (IF Len(arg) = 1 THEN int(arg[1], 10)
                     ELSE 10 * int(arg[1], 10) + int(arg[2], 10)) - 1
         IN  IF 0 <= pos /\ pos < Len(output)
             THEN Ok(insert(output, pos + 1, output[pos + 1]))
             ELSE Ok(output)

\* try: pos = int(arg[0]) - 1; if 0 <= pos < len(output): insert a copy
TryDuplicateAt(output, arg) ==
    IF arg = <<>> THEN Raise("IndexError", output)
    ELSE IF int(arg[1], 10) < 0 THEN Raise("ValueError", output)
    ELSE LET pos == int(arg[1], 10) - 1 IN
         IF 0 <= pos /\ pos < Len(output)
         THEN Ok(insert(output, pos + 1, output[pos + 1]))
         ELSE Ok(output)

\* except (ValueError, IndexError): pass
CaughtValueErrorOnly == {"ValueError"}

Caught == {"ValueError", "IndexError"}

ExceptPass(res, output) == IF res.exc \in Caught THEN Ok(output) ELSE res

\* No branch of the if/elif chain matches cmd: nothing is executed.
no_branch_raises(output) == Raise("ValueError", output)

no_branch(output) == Ok(output)

\* The if/elif chain over cmd, with the argument arg.
exec_cmd(output, cmd, arg) ==
        CASE cmd = ":" -> Ok(output)
          [] cmd = "l" -> Ok(lower_all(output))
          [] cmd = "u" -> Ok(upper_all(output))
          [] cmd = "c" -> IF output # <<>>
                          THEN Ok([lower_all(output) EXCEPT
                                      ![1] = upper(lower(output[1]))])
                          ELSE Ok(output)
          [] cmd = "C" -> IF output # <<>>
                          THEN Ok([upper_all(output) EXCEPT
                                      ![1] = lower(upper(output[1]))])
                          ELSE Ok(output)
          [] cmd = "t" -> Ok(toggle_all(output))
          [] cmd = "r" -> Ok(reverse(output))
          [] cmd = "[" -> IF output # <<>> THEN Ok(Tail(output))
                          ELSE Ok(output)
          [] cmd = "]" -> IF output # <<>>
                          THEN Ok(SubSeq(output, 1, Len(output) - 1))
                          ELSE Ok(output)
          [] cmd = "$" -> IF arg # <<>> THEN Ok(Append(output, arg[1]))
                          ELSE Ok(output)
          [] cmd = "^" -> IF arg # <<>> THEN Ok(insert(output, 0, arg[1]))
                          ELSE Ok(output)
          [] cmd = "T" -> ExceptPass(TryToggleAt(output, arg), output)
          [] cmd = "D" -> ExceptPass(TryDuplicateAt(output, arg), output)
          [] cmd = "+" -> IF arg # <<>> THEN Ok(Append(output, arg[1]))
                          ELSE Ok(output)
          [] cmd = "-" -> IF arg # <<>> THEN Ok(insert(output, 0, arg[1]))
                          ELSE Ok(output)
          [] OTHER -> no_branch(output)

\* The chain with ':' dispatched to the branch of 'l'.
exec_part_colon_lowers(output, part) ==
    IF part[1] = ":" THEN Ok(lower_all(output))
    ELSE exec_cmd(output, part[1], Tail(part))

\* The chain with '+' dispatched to the branch of '^'.
exec_part_plus_prepends(output, part) ==
    exec_cmd(output, IF part[1] = "+" THEN "^" ELSE part[1], Tail(part))

\* The chain with '^' and '-' inserting at index 1 instead of 0.
exec_part_prepend_at_one(output, part) ==
    IF part[1] \in {"^", "-"} /\ Len(part) > 1 /\ output # <<>>
    THEN Ok(insert(output, 1, part[2]))
    ELSE exec_cmd(output, part[1], Tail(part))

\* The chain with 'c' and 'C' changing the first character only.
exec_part_first_only(output, part) ==
    IF part[1] \in {"c", "C"} /\ output # <<>>
    THEN Ok([output EXCEPT ![1] = IF part[1] = "c" THEN upper(output[1])
                                  ELSE lower(output[1])])
    ELSE exec_cmd(output, part[1], Tail(part))

\* The chain with '[' and ']' popping without the `if output:` guard.
exec_part_pop_unguarded(output, part) ==
    IF part[1] \in {"[", "]"} /\ output = <<>>
    THEN Raise("IndexError", output)
    ELSE exec_cmd(output, part[1], Tail(part))

\* The chain with '$' and '+' doing output.extend(arg).
exec_part_append_all_arg(output, part) ==
    IF part[1] \in {"$", "+"} THEN Ok(output \o Tail(part))
    ELSE exec_cmd(output, part[1], Tail(part))

\* The chain with ']' doing output.pop(0).
exec_part_pop_last_as_first(output, part) ==
    exec_cmd(output, IF part[1] = "]" THEN "[" ELSE part[1], Tail(part))

\* The chain with '$' and '^' guarded by `if output and arg:`.
exec_part_add_needs_word(output, part) ==
    IF part[1] \in {"$", "^"} /\ output = <<>> THEN Ok(output)
    ELSE exec_cmd(output, part[1], Tail(part))

\* cmd = part[0]; arg = part[1:]; then the chain.
exec_part(output, part) == exec_cmd(output, part[1], Tail(part))

\* "".join(output)
join(output) == output

\* The loop of apply_hashcat_rule from the n-th part on.
RECURSIVE run_parts(_, _, _)
run_parts(output, parts, n) ==
    IF n > Len(parts) THEN Ok(output)
    ELSE IF parts[n] = <<>> THEN run_parts(output, parts, n + 1)
    ELSE LET res == exec_part(output, parts[n]) IN
         IF res.exc = "none" THEN run_parts(res.out, parts, n + 1)
         ELSE res

\* apply_hashcat_rule(word, rule) as one call: the returned string, or the
\* exception it raises.
apply_outcome(word, rule) ==
    IF word = <<>> THEN Ok(<<>>)
    ELSE LET res == run_parts(word, split(rule), 1) IN
         IF res.exc = "none" THEN Ok(join(res.out)) ELSE res

apply_hashcat_rule(word, rule) == apply_outcome(word, rule).out

(***************************************************************************)
(* The variant extraction of generate_guesses: str.capitalize, str.title,  *)
(* re.sub(r'[^0-9]', '', s), email.split('@')[0], list(set(...)) and       *)
(* sorted(..., key=len).                                                   *)
(***************************************************************************)
isalpha(c) == IndexIn(LowerLetters, c) > 0 \/ IndexIn(UpperLetters, c) > 0

isdigit(c) == IndexIn(Digits, c) > 0

capitalize(s) == IF s = <<>> THEN s
                 ELSE <<upper(s[1])>> \o lower_all(Tail(s))

title(s) == [k \in 1..Len(s) |->
                IF k = 1 \/ ~isalpha(s[k - 1]) THEN upper(s[k])
                ELSE lower(s[k])]

digits_of(s) == SelectSeq(s, isdigit)

last4(s) == SubSeq(s, Len(s) - 3, Len(s))

has_char(s, c) == \E k \in 1..Len(s) : s[k] = c

RECURSIVE before_at(_)
before_at(s) == IF s = <<>> \/ Head(s) = "@" THEN <<>>
                ELSE <<Head(s)>> \o before_at(Tail(s))

\* int(d[:4]) on a string of digits
int4(d) == 1000 * int(d[1], 10) + 100 * int(d[2], 10)
           + 10 * int(d[3], 10) + int(d[4], 10)

ToSet(s) == {s[k] : k \in 1..Len(s)}

RECURSIVE Flatten(_)
Flatten(ss) == IF ss = <<>> THEN <<>> ELSE Head(ss) \o Flatten(Tail(ss))

\* list(S) of a set S of strings: the iteration order of a set is any order.
Orderings(S) ==
    {f \in [1..Cardinality(S) -> S] :
        \A a, b \in 1..Cardinality(S) : a # b => f[a] # f[b]}

\* sorted(list(S), key=len): stable, so equal lengths keep the set's order.
SortedByLen(S) ==
    {f \in Orderings(S) :
        \A a, b \in 1..Cardinality(S) : a < b => Len(f[a]) <= Len(f[b])}

Take(s, n) == SubSeq(s, 1, IF Len(s) < n THEN Len(s) ELSE n)

\* The largest set all of whose orders are explored.
MaxPermuted == 6

\* One list of the elements of S.
RECURSIVE SomeList(_)
SomeList(S) == IF S = {} THEN <<>>
               ELSE LET x == CHOOSE y \in S : TRUE
                    IN  <<x>> \o SomeList(S \ {x})

\* The longest length of a word of the list s.
MaxLenOf(s) == IF s = <<>> THEN 0
               ELSE CHOOSE n \in {Len(s[k]) : k \in 1..Len(s)} :
                       \A k \in 1..Len(s) : Len(s[k]) <= n

\* sorted(s, key=len) of a list s: the words of length 0, then 1, ...
StableByLen(s) ==
    Flatten([n \in 1..(MaxLenOf(s) + 1) |->
                LET HasLen(x) == Len(x) = n - 1 IN SelectSeq(s, HasLen)])

\* list(S): the orders in which a set's elements may be listed.  A set of
\* more than MaxPermuted elements is listed in two opposite orders only.
ListsOfSet(S) ==
    IF Cardinality(S) <= MaxPermuted THEN Orderings(S)
    ELSE {SomeList(S), reverse(SomeList(S))}

\* sorted(list(S), key=len) for each of these orders.
SortedLists(S) ==
    IF Cardinality(S) <= MaxPermuted THEN SortedByLen(S)
    ELSE {StableByLen(l) : l \in ListsOfSet(S)}


\* The set extract_name_variants builds before list(set(variants)).
name_variant_set(names) ==
    UNION {
        IF names[k] = <<>> THEN {}
        ELSE {lower_all(names[k]), capitalize(names[k]), title(names[k])}
             \cup (IF has_char(names[k], " ") /\ Len(split(names[k])) > 1
                   THEN LET ps == split(names[k])
                            fname == ps[1]
                            lname == ps[Len(ps)]
                        IN  {lower_all(fname) \o lower_all(lname),
                             capitalize(fname) \o capitalize(lname),
                             lower_all(fname) \o capitalize(lname),
                             <<lower(fname[1])>> \o lower_all(lname)}
                   ELSE {})
        : k \in 1..Len(names)}

extract_date_variants(birth) ==
    LET d == digits_of(birth) IN
    IF birth # <<>> /\ Len(d) = 8 /\ 1950 <= int4(d) /\ int4(d) <= 2020
    THEN LET y   == SubSeq(d, 1, 4)
             m   == SubSeq(d, 5, 6)
             day == SubSeq(d, 7, 8)
             yy  == SubSeq(d, 3, 4)
         IN  <<y, yy, m \o day, d, yy \o m \o day>>
    ELSE <<>>

extract_phone_variants(phone) ==
    LET digits == digits_of(phone) IN
    IF phone # <<>> /\ Len(digits) >= 4 THEN <<last4(digits), digits>>
    ELSE <<>>

extract_email_variants(email) ==
    IF email # <<>> /\ has_char(email, "@") /\ Len(before_at(email)) > 2
    THEN LET u == before_at(email) IN <<u, lower_all(u), capitalize(u)>>
    ELSE <<>>

(***************************************************************************)
(* generate_combined_passwords up to the rule phase, and the ordered       *)
(* de-duplication of generate_guesses.                                     *)
(***************************************************************************)
Suffixes == << <<"1","2","3">>, <<"!">>, <<"@","1","2","3">>, <<"1">>,
               <<"2","0","2","3">>, <<"2","0","2","4">> >>

CommonPasswords ==
    << <<"p","a","s","s","w","o","r","d">>, <<"1","2","3","4","5","6">>,
       <<"1","2","3","4","5","6","7","8","9">>, <<"q","w","e","r","t","y">> >>

MaxSeeds == 10

\* sorted(...)[:10] without the slice.
base_words_for_rules_unsliced(sorted) == sorted

\* base_words_for_rules = sorted(...)[:10]
base_words_for_rules(sorted) == Take(sorted, MaxSeeds)

MinGuessLen == 6

MaxGuessLen == 20

\* def __init__(self, max_guesses=10000, ...), and the value main() passes
DefaultMaxGuesses == 10000

\* acct as a list: [acct] if acct else []
acct_list(account) == IF account # <<>> THEN <<lower_all(account)>> ELSE <<>>

\* The words whose set is base_words.
base_word_list(info) ==
    info.name_v \o info.date_v \o info.phone_v \o info.email_v
    \o acct_list(info.account)

\* The words whose set is sorted into base_words_for_rules.
seed_word_list(info) ==
    info.email_v \o info.name_v \o acct_list(info.account)

\* Steps 2 and 3 and the common passwords.
combined_tail(info) ==
    Flatten([k \in 1..Len(info.name_v) |->
        Flatten([d \in 1..Len(info.date_v) |->
            <<info.name_v[k] \o info.date_v[d],
              info.date_v[d] \o info.name_v[k]>>])
        \o Flatten([q \in 1..Len(info.phone_v) |->
            IF Len(info.phone_v[q]) >= 4
            THEN <<info.name_v[k] \o last4(info.phone_v[q])>>
            ELSE <<>>])])
    \o Flatten([k \in 1..Len(info.name_v \o acct_list(info.account)) |->
        [x \in 1..Len(Suffixes) |->
            (info.name_v \o acct_list(info.account))[k] \o Suffixes[x]]])
    \o CommonPasswords

\* seen = set(); uniq = []; the loop of generate_guesses over cands: the
\* k-th candidate is appended when it is non-empty, of length 6 to 20 and
\* not in seen, that is, equal to no candidate appended before it.
unique_filtered(cands, uniq) ==
    LET Kept(k) == /\ cands[k] # <<>>
                   /\ MinGuessLen <= Len(cands[k])
                   /\ Len(cands[k]) <= MaxGuessLen
                   /\ cands[k] \notin ToSet(uniq)
                   /\ \A j \in 1..(k - 1) : cands[j] # cands[k]
        kept    == SelectSeq([k \in 1..Len(cands) |-> k], Kept)
    IN  uniq \o [n \in 1..Len(kept) |-> cands[kept[n]]]

(***************************************************************************)
(* Inputs of the model.                                                    *)
(***************************************************************************)
SeqsUpTo(S, n) == UNION {[1..k -> S] : k \in 0..n}

WordAlphabet == {"a", "B", "1"}

SampleWords == {<<"a","l","i","c","e">>, <<"A","L","I","C","E">>,
                <<"a","B","1">>,
                <<"a","b","c","d","e","f","g","h","i","j","k">>}

Words == SeqsUpTo(WordAlphabet, MaxWordLen) \cup SampleWords

NoArgOps == {":", "l", "u", "c", "C", "t", "r", "[", "]"}
CharOps == {"$", "^", "+", "-"}
PosOps == {"T", "D"}
UnknownOps == {"@"}

CharArgs == {<<>>, <<"1">>, <<"9">>, <<"X","y">>}
PosArgs == {<<>>, <<"0">>, <<"1">>, <<"2">>, <<"9">>, <<"a">>, <<"A">>,
            <<"z">>, <<"1","2">>, <<"1","x">>}

\* Every token shape: each opcode with each kind of argument.
Tokens ==
    {<<op>> : op \in NoArgOps \cup UnknownOps}
    \cup {<<"l","x","y","z">>, <<"@","1">>}
    \cup {<<op>> \o a : op \in CharOps, a \in CharArgs}
    \cup {<<op>> \o a : op \in PosOps, a \in PosArgs}

\* The tokens that rules of several instructions are built from.
CoreTokens ==
    {<<op>> : op \in NoArgOps \cup UnknownOps}
    \cup {<<"$","1">>, <<"^","2">>, <<"T","0">>, <<"D","1">>, <<"T">>}

RECURSIVE JoinTokens(_)
JoinTokens(ts) ==
    IF ts = <<>> THEN <<>>
    ELSE IF Len(ts) = 1 THEN ts[1]
    ELSE ts[1] \o <<" ">> \o JoinTokens(Tail(ts))

SampleRules ==
    {<<"$","1"," ","$","2"," ","$","3">>,
     <<" ","u"," "," ","r","\t">>,
     <<"[","\t","$","1">>,
     <<"^","a"," ","^","b">>,
     <<"^","a"," ","[">>,
     <<"["," ","^","a">>,
     <<" ">>}

Rules ==
    {JoinTokens(<<t>>) : t \in Tokens}
    \cup {JoinTokens(ts) : ts \in SeqsUpTo(CoreTokens, MaxTokens)}
    \cup SampleRules

\* Lines of a rule file: blank, whitespace only, comments (also indented),
\* rules (also padded, also with a '#' inside), rules of malformed tokens.
SampleLines ==
    {<<>>,
     <<" ", "\t">>,
     <<"#", "u">>,
     <<" ", "#", "$", "1">>,
     <<"$", "1">>,
     <<" ", "u", " ", "r", " ">>,
     <<"$", "#">>,
     <<"@", " ", "$", "X">>,
     <<"T", "z", " ", "D">>}

Disks ==
    {[exists |-> e, lines |-> ls] :
        e \in BOOLEAN, ls \in SeqsUpTo(SampleLines, MaxLines)}

\* Targets: the user_info records parse_user_info hands to
\* generate_guesses.
SampleUsers ==
    {[names |-> << <<"a","l","i","c","e">> >>, account |-> <<"B","o","b","7">>,
      email |-> <<>>, phone |-> <<>>, birth |-> <<>>],
     [names |-> <<>>, account |-> <<>>,
      email |-> <<"j","o","e","@","x">>,
      phone |-> <<"1","2","-","3","4">>,
      birth |-> <<"1","9","4","9","0","1","0","2">>],
     [names |-> << <<"7">> >>, account |-> <<>>, email |-> <<>>,
      phone |-> <<>>,
      birth |-> <<"1","9","9","0","-","0","1","-","0","2">>],
     [names |-> << <<"a","l">> >>, account |-> <<>>,
      email |-> <<"a","n","n","a","@","x">>,
      phone |-> <<"1","2","-","3","4">>, birth |-> <<>>],
     [names |-> << <<"a","b","c","d","e","f","g","h","i","j","k","l","m",
                     "n","o","p","q">> >>,
      account |-> <<>>, email |-> <<>>, phone |-> <<>>, birth |-> <<>>],
     [names |-> << <<"a","b"," ","c","d">>, <<"e","f"," ","g","h">> >>,
      account |-> <<>>, email |-> <<>>, phone |-> <<>>, birth |-> <<>>],
     [names |-> <<>>, account |-> <<>>, email |-> <<>>, phone |-> <<>>,
      birth |-> <<>>]}

\* Rule files of the driver runs.
SampleDisks ==
    {[exists |-> FALSE, lines |-> <<>>],
     [exists |-> TRUE, lines |-> << <<"$","1">>, <<" ","#","x">>,
                                    <<"c">> >>],
     [exists |-> TRUE, lines |-> << <<"[", " ", "[", " ", "[", " ", "[">>,
                                    <<":">>, <<"r", " ", "T", "0">> >>]}

(***************************************************************************)
(* State.                                                                  *)
(***************************************************************************)
VARIABLES
    apc,      \* apply_hashcat_rule: "idle", "loop", "done" or "raised"
    word,     \* its argument word
    rule,     \* its argument rule
    output,   \* its local list output
    parts,    \* its local list parts
    i,        \* the index in parts of the next part of the for loop
    result,   \* the string it returned (meaningful when apc = "done")
    disk,     \* the rule file: whether it exists, and its lines
    lpc,      \* the constructor: "new", "reading", "ready" or "raised"
    rules,    \* load_hashcat_rules: its local list rules
    li,       \* the index in the file of the next line of `for line in f`
    ioerr,    \* how the last load met the file: "none", "missing", "open",
              \* "read"; "unloaded" before the first load
    warned,   \* the constructor printed the no-rules warning
    hashcat_rules,  \* self.hashcat_rules
    memo,     \* an earlier call of apply_hashcat_rule and what it returned
    frames,   \* the frames of the invocations of apply_hashcat_rule that
              \* run side by side on the one guesser, one per caller
    dpc,      \* generate_guesses: "idle", "rules" or "returned"
    cand,     \* generate_combined_passwords: its local list cand
    bases,    \* its local list base_words_for_rules
    bi,       \* the index in bases of the current base
    ri,       \* the index in hashcat_rules of the current rule
    guesses,  \* the list generate_guesses returned
    info,     \* generate_combined_passwords: its argument info
    max_guesses   \* self.max_guesses

applyVars == <<apc, word, rule, output, parts, i, result>>

loadVars == <<disk, lpc, rules, li, ioerr, warned, hashcat_rules>>

driverVars == <<dpc, cand, bases, bi, ri, guesses, info, max_guesses>>

callerVars == <<loadVars, memo, frames, driverVars>>

vars == <<applyVars, loadVars, memo, frames, driverVars>>

NoMemo == [set |-> FALSE, word |-> <<>>, rule |-> <<>>, result |-> <<>>]

\* How many callers may be inside apply_hashcat_rule at the same time.
MaxInvocations == 2

Invocations == 1..MaxInvocations

\* A frame outside a call: no arguments, no locals.
IdleFrame == [pc |-> "idle", word |-> <<>>, rule |-> <<>>, output |-> <<>>,
              parts |-> <<>>, i |-> 0, result |-> <<>>]

NoFrames == [t \in Invocations |-> IdleFrame]

\* No call of generate_combined_passwords is running.
NoInfo == [name_v |-> <<>>, date_v |-> <<>>, phone_v |-> <<>>,
           email_v |-> <<>>, account |-> <<>>]

InitDriver ==
    /\ dpc = "idle"
    /\ info = NoInfo
    /\ cand = <<>>
    /\ bases = <<>>
    /\ bi = 0
    /\ ri = 0
    /\ guesses = <<>>

InitApply ==
    /\ memo = NoMemo
    /\ frames = NoFrames
    /\ InitDriver
    /\ apc = "idle"
    /\ word = <<>>
    /\ rule = <<>>
    /\ output = <<>>
    /\ parts = <<>>
    /\ i = 0
    /\ result = <<>>

(***************************************************************************)
(* apply_hashcat_rule, one loop iteration per step.                        *)
(***************************************************************************)
\* Entry with the split of the rule cached per word: a word seen in the
\* remembered call gets the parts of that call's rule.
ApplyEnterCachedByWord(w, r) ==
    /\ word' = w
    /\ rule' = r
    /\ IF w = <<>>
       THEN /\ apc' = "done"
            /\ result' = <<>>
            /\ UNCHANGED <<output, parts, i>>
       ELSE /\ apc' = "loop"
            /\ output' = w
            /\ parts' = IF memo.set /\ memo.word = w THEN split(memo.rule)
                        ELSE split(r)
            /\ i' = 1
            /\ result' = <<>>

\* Entry without the empty-word check.
ApplyEnterNoEmptyCheck(w, r) ==
    /\ word' = w
    /\ rule' = r
    /\ apc' = "loop"
    /\ output' = w
    /\ parts' = split(r)
    /\ i' = 1
    /\ result' = <<>>

\* Entry: the empty-word check, list(word), rule.split().
ApplyEnter(w, r) ==
    /\ word' = w
    /\ rule' = r
    /\ IF w = <<>>
       THEN /\ apc' = "done"
            /\ result' = <<>>
            /\ UNCHANGED <<output, parts, i>>
       ELSE /\ apc' = "loop"
            /\ output' = w
            /\ parts' = split(r)
            /\ i' = 1
            /\ result' = <<>>

ApplyCall ==
    /\ apc = "idle"
    /\ lpc = "ready"
    /\ dpc = "idle"
    /\ \E w \in Words, r \in Rules : ApplyEnter(w, r)
    /\ UNCHANGED callerVars

\* One iteration in which the instruction acts on the seed word.
ApplyStepOnSeed ==
    /\ apc = "loop"
    /\ i <= Len(parts)
    /\ LET res == IF parts[i] = <<>> THEN Ok(output)
                  ELSE exec_part(word, parts[i])
       IN  IF res.exc = "none"
           THEN /\ output' = res.out
                /\ i' = i + 1
                /\ UNCHANGED apc
           ELSE /\ apc' = "raised"
                /\ UNCHANGED <<output, i>>
    /\ UNCHANGED <<word, rule, parts, result, callerVars>>

\* The iteration repeated for as long as the instruction changed nothing.
ApplyStepRetries ==
    /\ apc = "loop"
    /\ i <= Len(parts)
    /\ LET res == IF parts[i] = <<>> THEN Ok(output)
                  ELSE exec_part(output, parts[i])
       IN  IF res.exc = "none"
           THEN /\ output' = res.out
                /\ i' = IF res.out = output THEN i ELSE i + 1
                /\ UNCHANGED apc
           ELSE /\ apc' = "raised"
                /\ UNCHANGED <<output, i>>
    /\ UNCHANGED <<word, rule, parts, result, callerVars>>

\* One iteration of `for part in parts`.
ApplyStep ==
    /\ apc = "loop"
    /\ i <= Len(parts)
    /\ LET res == IF parts[i] = <<>> THEN Ok(output)
                  ELSE exec_part(output, parts[i])
       IN  IF res.exc = "none"
           THEN /\ output' = res.out
                /\ i' = i + 1
                /\ UNCHANGED apc
           ELSE /\ apc' = "raised"
                /\ UNCHANGED <<output, i>>
    /\ UNCHANGED <<word, rule, parts, result, callerVars>>

\* return "".join(output); the frame's locals are dropped.
ApplyReturn ==
    /\ apc = "loop"
    /\ i > Len(parts)
    /\ result' = join(output)
    /\ apc' = "done"
    /\ output' = <<>>
    /\ parts' = <<>>
    /\ i' = 0
    /\ UNCHANGED <<word, rule, callerVars>>

\* The caller takes the returned string; the interpreter is free again.
ApplyTaken ==
    /\ apc = "done"
    /\ dpc = "idle"
    /\ apc' = "idle"
    /\ word' = <<>>
    /\ rule' = <<>>
    /\ result' = <<>>
    /\ UNCHANGED <<output, parts, i, callerVars>>

(***************************************************************************)
(* __init__ and load_hashcat_rules, one line of the file per step.         *)
(***************************************************************************)
\* open() and the file iterator raise OSError; `except Exception` takes it.
LoadCaughtNothing == {}

LoadCaught == {"OSError", "ValueError", "IndexError"}

\* `if line and not line.startswith('#')` with a startswith('#') that is
\* never true.
keep_line_no_comment(line) == line # <<>>

\* The same test followed by a check of the first opcode.
keep_line_known_only(line) ==
    line # <<>> /\ line[1] # "#"
    /\ line[1] \in NoArgOps \cup CharOps \cup PosOps

\* `if line and not line.startswith('#')` on the stripped line.
keep_line(line) == line # <<>> /\ line[1] # "#"

\* load_hashcat_rules returns rs; __init__ stores it and prints.
LoadFinish(rs, err) ==
    /\ hashcat_rules' = rs
    /\ warned' = (rs = <<>>)
    /\ ioerr' = err
    /\ lpc' = "ready"
    /\ rules' = <<>>
    /\ li' = 0

\* An exception of kind e inside the try block of load_hashcat_rules, the
\* list rules holding rs: the handler prints and rs is returned.
LoadExcept(e, err, rs) ==
    IF e \in LoadCaught
    THEN LoadFinish(rs, err)
    ELSE /\ lpc' = "raised"
         /\ rules' = <<>>
         /\ li' = 0
         /\ UNCHANGED <<hashcat_rules, warned, ioerr>>

\* PasswordGuesser(rule_file=...): the exists() test, rules = [], open().
LoadEnter ==
    /\ lpc \in {"new", "ready"}
    /\ apc = "idle"
    /\ dpc = "idle"
    /\ IF ~disk.exists
       THEN LoadFinish(<<>>, "missing")
       ELSE \/ /\ lpc' = "reading"
               /\ rules' = <<>>
               /\ li' = 1
               /\ UNCHANGED <<hashcat_rules, warned, ioerr>>
            \/ LoadExcept("OSError", "open", <<>>)
    /\ UNCHANGED <<disk, applyVars, memo, frames, driverVars>>

\* One iteration of `for line in f`.
LoadLine ==
    /\ lpc = "reading"
    /\ li <= Len(disk.lines)
    /\ LET line == strip(disk.lines[li]) IN
       rules' = IF keep_line(line) THEN Append(rules, line) ELSE rules
    /\ li' = li + 1
    /\ UNCHANGED <<disk, lpc, ioerr, warned, hashcat_rules, applyVars, memo, frames,
                   driverVars>>

\* Reading the next line raises.
LoadReadError ==
    /\ lpc = "reading"
    /\ li <= Len(disk.lines)
    /\ LoadExcept("OSError", "read", rules)
    /\ UNCHANGED <<disk, applyVars, memo, frames, driverVars>>

\* End of file: return rules.
LoadReturn ==
    /\ lpc = "reading"
    /\ li > Len(disk.lines)
    /\ LoadFinish(rules, "none")
    /\ UNCHANGED <<disk, applyVars, memo, frames, driverVars>>

InitLoad ==
    /\ lpc = "new"
    /\ rules = <<>>
    /\ li = 0
    /\ ioerr = "unloaded"
    /\ warned = FALSE
    /\ hashcat_rules = <<>>

(***************************************************************************)
(* The interpreter alone: calls of apply_hashcat_rule on a guesser built   *)
(* without a rule file.                                                    *)
(***************************************************************************)
Init ==
    /\ InitApply
    /\ max_guesses = DefaultMaxGuesses
    /\ disk = [exists |-> FALSE, lines |-> <<>>]
    /\ lpc = "ready"
    /\ rules = <<>>
    /\ li = 0
    /\ ioerr = "missing"
    /\ warned = TRUE
    /\ hashcat_rules = <<>>

Next == ApplyCall \/ ApplyStep \/ ApplyReturn \/ ApplyTaken

Spec == Init /\ [][Next]_vars

(***************************************************************************)
(* generate_guesses and generate_combined_passwords, one call of           *)
(* apply_hashcat_rule per (base, rule) pair.                               *)
(***************************************************************************)
\* generate_guesses(user_info) up to the rule phase of
\* generate_combined_passwords.
DriverEnter ==
    /\ lpc = "ready"
    /\ apc = "idle"
    /\ dpc \in {"idle", "returned"}
    /\ \E user \in SampleUsers :
       \E name_v \in ListsOfSet(name_variant_set(user.names)) :
          LET given == [name_v  |-> name_v,
                        date_v  |-> extract_date_variants(user.birth),
                        phone_v |-> extract_phone_variants(user.phone),
                        email_v |-> extract_email_variants(user.email),
                        account |-> user.account]
          IN  /\ info' = given
              /\ \E base_words \in ListsOfSet(ToSet(base_word_list(given))) :
                    cand' = base_words \o combined_tail(given)
              /\ IF hashcat_rules # <<>>
                 THEN \E sorted \in SortedLists(ToSet(seed_word_list(given))) :
                         bases' = base_words_for_rules(sorted)
                 ELSE bases' = <<>>
    /\ dpc' = "rules"
    /\ bi' = 1
    /\ ri' = 1
    /\ guesses' = <<>>
    /\ UNCHANGED <<applyVars, loadVars, memo, frames, max_guesses>>

\* `if base and len(base) > 3` is false: the next base.
DriverSkip ==
    /\ dpc = "rules"
    /\ apc = "idle"
    /\ bi <= Len(bases)
    /\ ~(bases[bi] # <<>> /\ Len(bases[bi]) > 3)
    /\ bi' = bi + 1
    /\ ri' = 1
    /\ UNCHANGED <<dpc, cand, bases, guesses, info, max_guesses, applyVars,
                   loadVars, memo, frames>>

\* mutated = self.apply_hashcat_rule(base, rule): the call.
DriverCall ==
    /\ dpc = "rules"
    /\ apc = "idle"
    /\ bi <= Len(bases)
    /\ bases[bi] # <<>> /\ Len(bases[bi]) > 3
    /\ ApplyEnter(bases[bi], hashcat_rules[ri])
    /\ UNCHANGED callerVars

\* The same with the rule taken off the rule list.
DriverTakeConsumesRule ==
    /\ dpc = "rules"
    /\ apc = "done"
    /\ cand' = IF result # <<>> /\ result # bases[bi]
               THEN Append(cand, result) ELSE cand
    /\ hashcat_rules' = Tail(hashcat_rules)
    /\ IF Len(hashcat_rules) > 1
       THEN UNCHANGED bi
       ELSE bi' = Len(bases) + 1
    /\ UNCHANGED ri
    /\ apc' = "idle"
    /\ word' = <<>>
    /\ rule' = <<>>
    /\ result' = <<>>
    /\ UNCHANGED <<output, parts, i, dpc, bases, guesses, info, max_guesses,
                   memo, frames,
                   disk, lpc, rules, li, ioerr, warned>>

\* The same with `if mutated: cand.append(mutated)`.
DriverTakeKeepsEqual ==
    /\ dpc = "rules"
    /\ apc = "done"
    /\ cand' = IF result # <<>> THEN Append(cand, result) ELSE cand
    /\ IF ri < Len(hashcat_rules)
       THEN /\ ri' = ri + 1
            /\ UNCHANGED bi
       ELSE /\ ri' = 1
            /\ bi' = bi + 1
    /\ apc' = "idle"
    /\ word' = <<>>
    /\ rule' = <<>>
    /\ result' = <<>>
    /\ UNCHANGED <<output, parts, i, dpc, bases, guesses, info, max_guesses,
                   loadVars, memo, frames>>

\* The call returned: `if mutated and mutated != base: cand.append`, then
\* the next rule, or the next base.
DriverTake ==
    /\ dpc = "rules"
    /\ apc = "done"
    /\ cand' = IF result # <<>> /\ result # bases[bi]
               THEN Append(cand, result) ELSE cand
    /\ IF ri < Len(hashcat_rules)
       THEN /\ ri' = ri + 1
            /\ UNCHANGED bi
       ELSE /\ ri' = 1
            /\ bi' = bi + 1
    /\ apc' = "idle"
    /\ word' = <<>>
    /\ rule' = <<>>
    /\ result' = <<>>
    /\ UNCHANGED <<output, parts, i, dpc, bases, guesses, info, max_guesses,
                   loadVars, memo, frames>>

\* The same with `return uniq`.
DriverReturnNoCut ==
    /\ dpc = "rules"
    /\ apc = "idle"
    /\ bi > Len(bases)
    /\ guesses' = unique_filtered(cand, <<>>)
    /\ dpc' = "returned"
    /\ cand' = <<>>
    /\ bases' = <<>>
    /\ bi' = 0
    /\ ri' = 0
    /\ info' = NoInfo
    /\ UNCHANGED <<applyVars, loadVars, memo, frames, max_guesses>>

\* generate_combined_passwords returns cand; generate_guesses removes
\* duplicates in order, filters by length and cuts at max_guesses.
DriverReturn ==
    /\ dpc = "rules"
    /\ apc = "idle"
    /\ bi > Len(bases)
    /\ guesses' = Take(unique_filtered(cand, <<>>), max_guesses)
    /\ dpc' = "returned"
    /\ cand' = <<>>
    /\ bases' = <<>>
    /\ bi' = 0
    /\ ri' = 0
    /\ info' = NoInfo
    /\ UNCHANGED <<applyVars, loadVars, memo, frames, max_guesses>>

\* main(): the one PasswordGuesser of the run is constructed.
DriverConstruct == lpc = "new" /\ LoadEnter

\* The values of max_guesses the guesser is constructed with: one that the
\* sample users' candidate lists exceed, and the default.
SampleMaxGuesses == {2, DefaultMaxGuesses}

InitDriving ==
    /\ InitApply
    /\ max_guesses \in SampleMaxGuesses
    /\ InitLoad
    /\ disk \in SampleDisks

NextDriver ==
    \/ DriverConstruct \/ LoadLine \/ LoadReadError \/ LoadReturn
    \/ DriverEnter \/ DriverSkip \/ DriverCall
    \/ ApplyStep \/ ApplyReturn
    \/ DriverTake \/ DriverReturn

SpecDriver == InitDriving /\ [][NextDriver]_vars

(***************************************************************************)
(* Repeated calls of apply_hashcat_rule, one earlier call and its result   *)
(* being remembered.                                                       *)
(***************************************************************************)
PureWords == {<<>>, <<"a">>, <<"a", "B">>, <<"1", "a">>}

PureRules == CoreTokens \cup {<<>>, <<"[", " ", "$", "1">>,
                               <<"T", "0", " ", "r">>}

PureCall ==
    /\ apc = "idle"
    /\ lpc = "ready"
    /\ dpc = "idle"
    /\ \E w \in PureWords, r \in PureRules : ApplyEnter(w, r)
    /\ UNCHANGED callerVars

\* The finished call is remembered.
PureNote ==
    /\ apc = "done"
    /\ memo' = [set |-> TRUE, word |-> word, rule |-> rule,
                result |-> result]
    /\ UNCHANGED <<applyVars, loadVars, frames, driverVars>>

NextPure == PureCall \/ ApplyStep \/ ApplyReturn \/ PureNote \/ ApplyTaken

SpecPure == Init /\ [][NextPure]_vars

(***************************************************************************)
(* The load phase alone: a guesser is built, and built again, from a rule  *)
(* file that does not change.                                              *)
(***************************************************************************)
InitLoading ==
    /\ InitApply
    /\ max_guesses = DefaultMaxGuesses
    /\ InitLoad
    /\ disk \in Disks

NextLoad == LoadEnter \/ LoadLine \/ LoadReadError \/ LoadReturn

SpecLoad == InitLoading /\ [][NextLoad]_vars

(***************************************************************************)
(* Properties of apply_hashcat_rule.                                       *)
(***************************************************************************)
KnownOps == NoArgOps \cup CharOps \cup PosOps

HexDigitChars == {"0","1","2","3","4","5","6","7","8","9",
                  "a","b","c","d","e","f","A","B","C","D","E","F"}

DecDigitChars == {"0","1","2","3","4","5","6","7","8","9"}

Alice == <<"a","l","i","c","e">>

\* The instruction `part` cannot apply to the list `out`: its argument is
\* missing, is not a digit of its base, or addresses no character of out.
CannotApply(out, part) ==
    LET cmd == part[1]
        arg == Tail(part)
    IN  \/ cmd \in CharOps \cup PosOps /\ arg = <<>>
        \/ cmd = "T" /\ arg # <<>> /\ arg[1] \notin HexDigitChars
        \/ cmd = "D" /\ arg # <<>> /\ arg[1] \notin DecDigitChars
        \/ cmd = "T" /\ arg # <<>> /\ arg[1] \in HexDigitChars
                     /\ int(arg[1], 16) >= Len(out)
        \/ cmd = "D" /\ arg # <<>> /\ arg[1] \in DecDigitChars
                     /\ int(arg[1], 10) - 1 \notin 0..(Len(out) - 1)

\* C1: the instructions run left to right, each on the word the previous
\* one produced: a finished call on rule 'r1 r2' returned what r2 returns
\* on the result of r1, for every cut of the rule into r1 and r2 whose
\* intermediate result is non-empty; 'alice' with '$1 $2 $3' is 'alice123'.
C1_Composition ==
    apc = "done" =>
        /\ \A k \in 0..Len(split(rule)) :
              LET ts  == split(rule)
                  r1  == JoinTokens(SubSeq(ts, 1, k))
                  r2  == JoinTokens(SubSeq(ts, k + 1, Len(ts)))
                  mid == apply_hashcat_rule(word, r1)
              IN  mid # <<>> => result = apply_hashcat_rule(mid, r2)
        /\ (word = Alice /\ rule = <<"$","1"," ","$","2"," ","$","3">>)
              => result = Alice \o <<"1","2","3">>

C1_Witness ==
    /\ apc = "done"
    /\ word = Alice
    /\ rule = <<"$","1"," ","$","2"," ","$","3">>
    /\ result = Alice \o <<"1","2","3">>

\* C2: apply is total: no call raises, whatever the word and the rule
\* (empty word, empty rule, missing arguments, non-numeric positions,
\* unknown opcodes), and a finished call returned a string.
C2_Total ==
    /\ apc # "raised"
    /\ apc = "done" => /\ result \in Seq(STRING)
                       /\ apply_outcome(word, rule).exc = "none"

C2_Witness ==
    /\ apc = "done"
    /\ word = <<"a", "B">>
    /\ rule = <<"D", "z">>
    /\ result = word

\* C3 as stated: apply("", "u $1") returns "1".
C3_Original ==
    (apc = "done" /\ word = <<>> /\ rule = <<"u", " ", "$", "1">>)
        => result = <<"1">>

\* C3: a call on the empty word returns the empty string and executes no
\* instruction of the rule: apply("", "u $1") returns "".
C3_EmptyWord ==
    word = <<>> => /\ apc \in {"idle", "done"}
                   /\ apc = "done" => result = <<>>

C3_Witness ==
    /\ apc = "done"
    /\ word = <<>>
    /\ rule = <<"u", " ", "$", "1">>
    /\ result = <<>>

\* C4: fail-soft: an instruction that cannot apply (argument missing,
\* position not a digit of its base, position outside the word) leaves the
\* word exactly as it was and the loop goes on to the next instruction.
C4_FailSoft ==
    [][(apc = "loop" /\ i <= Len(parts) /\ CannotApply(output, parts[i]))
          => (output' = output /\ i' = i + 1 /\ apc' = "loop")]_vars

\* 'T $1' on 'aB': T without argument was skipped, $1 ran.
C4_Witness ==
    /\ apc = "done"
    /\ word = <<"a", "B">>
    /\ rule = <<"T", " ", "$", "1">>
    /\ result = <<"a", "B", "1">>

\* C5: an instruction whose opcode is not in the table leaves the word
\* unchanged and does not stop the rule; on a non-empty word '@ $X' returns
\* the word followed by X.
C5_UnknownOpcode ==
    /\ [][(apc = "loop" /\ i <= Len(parts) /\ parts[i][1] \notin KnownOps)
            => (output' = output /\ i' = i + 1 /\ apc' = "loop")]_vars
    /\ [](apc = "done" /\ word # <<>> =>
            LET ts == split(rule) IN
            (Len(ts) = 2 /\ ts[1][1] \notin KnownOps
                /\ ts[2][1] = "$" /\ Len(ts[2]) > 1)
            => result = Append(word, ts[2][2]))

C5_Witness ==
    /\ apc = "done"
    /\ word = <<"a", "B">>
    /\ rule = <<"@", " ", "$", "1">>
    /\ result = <<"a", "B", "1">>

(***************************************************************************)
(* Properties of load_hashcat_rules.                                       *)
(***************************************************************************)
IsBlank(line) == \A k \in 1..Len(line) : line[k] \in {" ", "\t"}

\* The first character that is not whitespace is '#'.
IsComment(line) ==
    \E k \in 1..Len(line) :
        /\ line[k] = "#"
        /\ \A m \in 1..(k - 1) : line[m] \in {" ", "\t"}

\* The indices of the lines that count as rules, and the k-th of them.
RuleLines(lines) ==
    {k \in 1..Len(lines) : ~IsBlank(lines[k]) /\ ~IsComment(lines[k])}

NthRuleLine(lines, n) ==
    CHOOSE k \in RuleLines(lines) :
        Cardinality({m \in RuleLines(lines) : m <= k}) = n

\* A token no instruction of the table can execute.
IsMalformedToken(t) ==
    \/ t[1] \notin KnownOps
    \/ t[1] \in CharOps \cup PosOps /\ Len(t) = 1
    \/ t[1] = "T" /\ Len(t) > 1 /\ t[2] \notin HexDigitChars
    \/ t[1] = "D" /\ Len(t) > 1 /\ t[2] \notin DecDigitChars

IsMalformedLine(line) ==
    \E n \in 1..Len(split(line)) : IsMalformedToken(split(line)[n])

\* C6 as stated: a load that met a missing or unreadable file does not
\* return a RuleSet to the constructor.
C6_Original == ~(lpc = "ready" /\ ioerr # "none")

\* C6: the load never raises to its caller: a missing file or a failing
\* open() gives the empty rule list and the constructor prints its warning;
\* a failing read gives the rules of the lines read before it.
C6_LoadNeverRaises ==
    /\ lpc # "raised"
    /\ (lpc = "ready" /\ ioerr \in {"missing", "open"})
          => (hashcat_rules = <<>> /\ warned)
    /\ (lpc = "ready" /\ ioerr = "read")
          => \E n \in 0..(Len(disk.lines) - 1) :
                /\ Len(hashcat_rules)
                      = Cardinality(RuleLines(SubSeq(disk.lines, 1, n)))
                /\ \A j \in 1..Len(hashcat_rules) :
                      hashcat_rules[j]
                          = strip(disk.lines[NthRuleLine(disk.lines, j)])

C6_Witness ==
    /\ lpc = "ready"
    /\ ioerr = "read"
    /\ Len(disk.lines) = 3
    /\ hashcat_rules = <<<<"$", "1">>>>

\* C7: a load without I/O error yields exactly one rule per line that is
\* neither blank nor a comment, in file order, none of them empty; loading
\* the same file again yields the same sequence.
C7_RuleSetOfFile ==
    /\ [](lpc = "ready" /\ ioerr = "none" =>
            /\ Len(hashcat_rules) = Cardinality(RuleLines(disk.lines))
            /\ \A j \in 1..Len(hashcat_rules) :
                  /\ hashcat_rules[j]
                        = strip(disk.lines[NthRuleLine(disk.lines, j)])
                  /\ hashcat_rules[j] # <<>>
                  /\ hashcat_rules[j][1] # "#")
    /\ [][(lpc = "reading" /\ ioerr = "none" /\ lpc' = "ready"
             /\ ioerr' = "none") => hashcat_rules' = hashcat_rules]_vars

\* blank, rule, indented comment, rule: two rules in file order.
C7_Witness ==
    /\ lpc = "ready"
    /\ ioerr = "none"
    /\ disk.lines = << <<" ", "\t">>, <<" ", "u", " ", "r", " ">>,
                       <<" ", "#", "$", "1">> >>
    /\ hashcat_rules = << <<"u", " ", "r">> >>

\* C8: rule content never makes the load fail: a line of malformed tokens
\* that is neither blank nor a comment is kept as a rule, and so is every
\* rule line after it.
C8_ContentNeverFails ==
    (lpc = "ready" /\ ioerr = "none") =>
        \A k \in RuleLines(disk.lines) :
            IsMalformedLine(disk.lines[k]) =>
                \A m \in RuleLines(disk.lines) :
                    m >= k => \E j \in 1..Len(hashcat_rules) :
                                 hashcat_rules[j] = strip(disk.lines[m])

C8_Witness ==
    /\ lpc = "ready"
    /\ ioerr = "none"
    /\ disk.lines = << <<"@", " ", "$", "X">>, <<"T", "z", " ", "D">>,
                       <<"$", "1">> >>
    /\ hashcat_rules = disk.lines

\* C9: apply is deterministic and pure: a call on the same word and rule
\* as a remembered earlier call returns the same string, whatever calls
\* were made since.
C9_Deterministic ==
    (apc = "done" /\ memo.set /\ memo.word = word /\ memo.rule = rule)
        => result = memo.result

\* 'T0 r' on 'aB' was remembered with its result 'BA', and a later call on
\* the same pair has returned.
C9_Witness ==
    /\ apc = "done"
    /\ memo = [set |-> TRUE, word |-> <<"a", "B">>,
               rule |-> <<"T", "0", " ", "r">>, result |-> <<"B", "A">>]
    /\ word = memo.word
    /\ rule = memo.rule
    /\ result = <<"B", "A">>

(***************************************************************************)
(* Properties of the driver.                                               *)
(***************************************************************************)
\* C10: after the load the rule list is read-only: no step of
\* apply_hashcat_rule, generate_combined_passwords or generate_guesses
\* changes the list, its order or a rule in it; a call of
\* apply_hashcat_rule leaves its seed word, and the driver's list of seeds,
\* as they were.
C10_RuleSetReadOnly ==
    /\ [][lpc = "ready" => (lpc' = "ready"
                             /\ hashcat_rules' = hashcat_rules)]_vars
    /\ [][(dpc = "rules" /\ dpc' = "rules") => bases' = bases]_vars
    /\ [][apc = "loop" => word' = word]_vars
    /\ []((dpc = "rules" /\ apc \in {"loop", "done"})
            => (word = bases[bi] /\ rule = hashcat_rules[ri]))

\* The second rule, 'c', has returned 'Bob7' for the seed 'bob7'; the first
\* one added 'bob71'.
C10_Witness ==
    /\ dpc = "rules"
    /\ apc = "done"
    /\ hashcat_rules = << <<"$", "1">>, <<"c">> >>
    /\ ri = 2
    /\ word = <<"b", "o", "b", "7">>
    /\ result = <<"B", "o", "b", "7">>
    /\ cand[Len(cand)] = <<"b", "o", "b", "7", "1">>

\* The calls of Spec with a scheduler that lets a running call proceed:
\* the loop body and the return statement are plain sequential code, so an
\* enabled iteration or return is eventually executed.
SpecTerm == Init /\ [][Next]_vars /\ WF_vars(ApplyStep) /\ WF_vars(ApplyReturn)

(***************************************************************************)
(* Several invocations of apply_hashcat_rule on one guesser.  The method    *)
(* keeps word, rule, output and parts in its own frame and never touches    *)
(* self; the callers share self.hashcat_rules and take their rules from it. *)
(* The invocations advance one loop iteration at a time, in any order.      *)
(***************************************************************************)

ConcWords == {<<>>, <<"a","B">>, <<"B","1">>}

\* The shared rule list of the guesser, as loaded from a readable file.
ConcRuleSet == << <<"$","1"," ","r">>, <<"c"," ","T","1">>,
                  <<"["," ","^","2">> >>

\* if not word: return ""; output = list(word); parts = rule.split()
frame_enter(w, r) ==
    IF w = <<>>
    THEN [IdleFrame EXCEPT !.pc = "done", !.word = w, !.rule = r]
    ELSE [pc |-> "loop", word |-> w, rule |-> r, output |-> w,
          parts |-> split(r), i |-> 1, result |-> <<>>]

\* one iteration of `for part in parts` in the frame f
frame_step(f) ==
    LET res == IF f.parts[f.i] = <<>> THEN Ok(f.output)
               ELSE exec_part(f.output, f.parts[f.i])
    IN  IF res.exc = "none"
        THEN [f EXCEPT !.output = res.out, !.i = f.i + 1]
        ELSE [f EXCEPT !.pc = "raised"]

\* return "".join(output)
frame_return(f) ==
    [f EXCEPT !.pc = "done", !.result = join(f.output), !.output = <<>>,
              !.parts = <<>>, !.i = 0]

\* Caller t enters the method with a word of its own and a shared rule.
ConcCall(t) ==
    /\ lpc = "ready"
    /\ frames[t].pc = "idle"
    /\ \E w \in ConcWords, n \in 1..Len(hashcat_rules) :
          frames' = [frames EXCEPT ![t] = frame_enter(w, hashcat_rules[n])]
    /\ UNCHANGED <<applyVars, loadVars, memo, driverVars>>

\* The iteration with output kept in one attribute of the guesser
\* (self.output) instead of a local: every running frame sees the write.
ConcStepSharedOutput(t) ==
    /\ frames[t].pc = "loop"
    /\ frames[t].i <= Len(frames[t].parts)
    /\ LET f == frame_step(frames[t]) IN
       frames' = [u \in Invocations |->
                    IF u = t THEN f
                    ELSE IF frames[u].pc = "loop"
                         THEN [frames[u] EXCEPT !.output = f.output]
                         ELSE frames[u]]
    /\ UNCHANGED <<applyVars, loadVars, memo, driverVars>>

\* Caller t's invocation runs one iteration of its loop.
ConcStep(t) ==
    /\ frames[t].pc = "loop"
    /\ frames[t].i <= Len(frames[t].parts)
    /\ frames' = [frames EXCEPT ![t] = frame_step(frames[t])]
    /\ UNCHANGED <<applyVars, loadVars, memo, driverVars>>

\* Caller t's invocation returns.
ConcReturn(t) ==
    /\ frames[t].pc = "loop"
    /\ frames[t].i > Len(frames[t].parts)
    /\ frames' = [frames EXCEPT ![t] = frame_return(frames[t])]
    /\ UNCHANGED <<applyVars, loadVars, memo, driverVars>>

\* Caller t takes the returned string.
ConcTaken(t) ==
    /\ frames[t].pc = "done"
    /\ frames' = [frames EXCEPT ![t] = IdleFrame]
    /\ UNCHANGED <<applyVars, loadVars, memo, driverVars>>

\* The guesser after construction from a readable file of three rules.
InitConc ==
    /\ InitApply
    /\ max_guesses = DefaultMaxGuesses
    /\ disk = [exists |-> TRUE, lines |-> ConcRuleSet]
    /\ lpc = "ready"
    /\ rules = <<>>
    /\ li = 0
    /\ ioerr = "none"
    /\ warned = FALSE
    /\ hashcat_rules = ConcRuleSet

NextConc ==
    \E t \in Invocations :
        ConcCall(t) \/ ConcStep(t) \/ ConcReturn(t) \/ ConcTaken(t)

SpecConc == InitConc /\ [][NextConc]_vars

\* ---------------------------------------------------------------------
\* Vocabulary of the claims about single instructions
\* ---------------------------------------------------------------------

\* The interpreter is about to execute an instruction whose opcode is in ops.
StepOn(ops) == apc = "loop" /\ i <= Len(parts) /\ parts[i][1] \in ops

\* A finished call whose rule is the single token <<op>> \o arg.
DoneOne(op) == /\ apc = "done"
               /\ Len(split(rule)) = 1
               /\ split(rule)[1][1] = op

Abc11 == <<"a","b","c","d","e","f","g","h","i","j","k">>

HexChars == <<"0","1","2","3","4","5","6","7","8","9","a","b","c","d","e","f">>

\* The number a hexadecimal digit character stands for.
HexValue(c) == IndexIn(HexChars, lower(c)) - 1

\* The number a decimal digit character stands for.
DecValue(c) == IndexIn(Digits, c) - 1

\* The letter of the other case; any other character itself.
SwapCase(c) == IF IndexIn(LowerLetters, c) > 0
               THEN UpperLetters[IndexIn(LowerLetters, c)]
               ELSE IF IndexIn(UpperLetters, c) > 0
                    THEN LowerLetters[IndexIn(UpperLetters, c)]
                    ELSE c

\* C12: a rule made only of ':' instructions returns the word unchanged;
\* every ':' instruction leaves the working word as it is.
C12_NoOp ==
    /\ [][StepOn({":"}) => output' = output]_vars
    /\ [](apc = "done" =>
            LET ts == split(rule) IN
            (ts # <<>> /\ \A n \in 1..Len(ts) : ts[n][1] = ":")
                => result = word)

C12_Witness ==
    /\ apc = "done"
    /\ word = <<"a","B">>
    /\ rule = <<":"," ",":">>
    /\ result = <<"a","B">>

\* C13: '$X' and '+X' put X after the working word: the length grows by
\* one, the earlier characters keep their positions; both spellings give
\* the same result for every word; without an argument nothing changes.
C13_Append ==
    /\ [][StepOn({"$", "+"}) =>
            IF Len(parts[i]) > 1
            THEN /\ Len(output') = Len(output) + 1
                 /\ output'[Len(output')] = parts[i][2]
                 /\ \A k \in 1..Len(output) : output'[k] = output[k]
            ELSE output' = output]_vars
    /\ [](\A op \in {"$", "+"} : DoneOne(op) =>
            LET arg   == Tail(split(rule)[1])
                alias == IF op = "$" THEN "+" ELSE "$"
            IN  /\ result = apply_hashcat_rule(word, <<alias>> \o arg)
                /\ arg = <<>> => result = word)

C13_Witness ==
    /\ apc = "done"
    /\ word = <<"a","B">>
    /\ rule = <<"+","1">>
    /\ result = <<"a","B","1">>

\* C14 as written: '^X' and '-X' put X before the working word, the two
\* spellings agree, no argument changes nothing, and the rule '^a ^b'
\* yields 'ba' + word for every word.
C14_Original ==
    /\ [][StepOn({"^", "-"}) =>
            IF Len(parts[i]) > 1
            THEN output' = <<parts[i][2]>> \o output
            ELSE output' = output]_vars
    /\ [](\A op \in {"^", "-"} : DoneOne(op) =>
            LET arg   == Tail(split(rule)[1])
                alias == IF op = "^" THEN "-" ELSE "^"
            IN  /\ result = apply_hashcat_rule(word, <<alias>> \o arg)
                /\ arg = <<>> => result = word)
    /\ []((apc = "done" /\ word = Alice /\ rule = <<"^","9">>)
            => result = <<"9">> \o Alice)
    /\ []((apc = "done" /\ rule = <<"^","a"," ","^","b">>)
            => result = <<"b","a">> \o word)

\* C14: '^X' and '-X' put X before the working word, the two spellings
\* agree, no argument changes nothing, and the rule '^a ^b' yields
\* 'ba' + word for every non-empty word (the empty word yields '').
C14_Prepend ==
    /\ [][StepOn({"^", "-"}) =>
            IF Len(parts[i]) > 1
            THEN output' = <<parts[i][2]>> \o output
            ELSE output' = output]_vars
    /\ [](\A op \in {"^", "-"} : DoneOne(op) =>
            LET arg   == Tail(split(rule)[1])
                alias == IF op = "^" THEN "-" ELSE "^"
            IN  /\ result = apply_hashcat_rule(word, <<alias>> \o arg)
                /\ arg = <<>> => result = word)
    /\ []((apc = "done" /\ word = Alice /\ rule = <<"^","9">>)
            => result = <<"9">> \o Alice)
    /\ []((apc = "done" /\ rule = <<"^","a"," ","^","b">>) =>
            result = IF word = <<>> THEN <<>> ELSE <<"b","a">> \o word)

C14_Witness ==
    /\ apc = "done"
    /\ word = <<"a","B">>
    /\ rule = <<"^","a"," ","^","b">>
    /\ result = <<"b","a","a","B">>

\* C15: 'TN' reads N as one hexadecimal digit and inverts the case of the
\* character at zero-based position N only; when N is no hexadecimal digit
\* or N >= length the working word is unchanged.
C15_ToggleAt ==
    /\ [][StepOn({"T"}) =>
            LET arg == Tail(parts[i]) IN
            IF arg # <<>> /\ arg[1] \in HexDigitChars
                          /\ HexValue(arg[1]) < Len(output)
            THEN /\ Len(output') = Len(output)
                 /\ \A k \in 1..Len(output) :
                       output'[k] = IF k = HexValue(arg[1]) + 1
                                    THEN SwapCase(output[k])
                                    ELSE output[k]
            ELSE output' = output]_vars
    /\ []((apc = "done" /\ word = Alice /\ rule = <<"T","0">>)
            => result = <<"A","l","i","c","e">>)
    /\ []((apc = "done" /\ word = Alice /\ rule = <<"T","9">>)
            => result = Alice)
    /\ []((apc = "done" /\ word = Abc11 /\ rule = <<"T","A">>)
            => result = [Abc11 EXCEPT ![11] = "K"])

C15_Witness ==
    /\ apc = "done"
    /\ word = Abc11
    /\ rule = <<"T","A">>
    /\ result = <<"a","b","c","d","e","f","g","h","i","j","K">>

\* C16: 'DN' reads N as one decimal digit and puts a copy of the character
\* at one-based position N right after it; N = 0, N > length and an N that
\* is no decimal digit (a hexadecimal letter as in 'DA' included) leave the
\* working word unchanged.
C16_DuplicateAt ==
    /\ [][StepOn({"D"}) =>
            LET arg == Tail(parts[i]) IN
            IF arg # <<>> /\ arg[1] \in DecDigitChars
                          /\ 1 <= DecValue(arg[1])
                          /\ DecValue(arg[1]) <= Len(output)
            THEN LET n == DecValue(arg[1]) IN
                 output' = SubSeq(output, 1, n) \o <<output[n]>>
                              \o SubSeq(output, n + 1, Len(output))
            ELSE output' = output]_vars
    /\ []((apc = "done" /\ word = Alice /\ rule = <<"D","1">>)
            => result = <<"a">> \o Alice)
    /\ []((apc = "done" /\ DoneOne("D") /\ Len(split(rule)[1]) > 1
              /\ split(rule)[1][2] \in {"0", "a", "A", "z"})
            => result = word)

C16_Witness ==
    /\ apc = "done"
    /\ word = <<"a","B">>
    /\ rule = <<"D","2">>
    /\ result = <<"a","B","B">>

\* C17: 'c' lowercases every character and then uppercases the first;
\* 'C' uppercases every character and then lowercases the first; on a
\* working word that is empty both do nothing; the length never changes.
C17_Capitalize ==
    /\ [][StepOn({"c", "C"}) =>
            IF output = <<>> THEN output' = <<>>
            ELSE /\ Len(output') = Len(output)
                 /\ output'[1] = IF parts[i][1] = "c"
                                 THEN upper(lower(output[1]))
                                 ELSE lower(upper(output[1]))
                 /\ \A k \in 2..Len(output) :
                       output'[k] = IF parts[i][1] = "c"
                                    THEN lower(output[k])
                                    ELSE upper(output[k])]_vars
    /\ []((apc = "done" /\ word = Alice /\ rule = <<"c">>)
            => result = <<"A","l","i","c","e">>)
    /\ []((apc = "done" /\ word = <<"A","L","I","C","E">> /\ rule = <<"C">>)
            => result = <<"a","L","I","C","E">>)
    /\ []((apc = "done" /\ Len(word) = 1
              /\ rule \in {<<"["," ","c">>, <<"["," ","C">>})
            => result = <<>>)

C17_Witness ==
    /\ apc = "done"
    /\ word = <<"A","L","I","C","E">>
    /\ rule = <<"C">>
    /\ result = <<"a","L","I","C","E">>

\* C18: 'u' uppercases and 'l' lowercases every character, and applying
\* either a second time changes nothing more:
\* apply(apply(w, 'u'), 'u') = apply(w, 'u'), and the same for 'l'.
C18_UpperLower ==
    /\ [][StepOn({"u"}) =>
            /\ Len(output') = Len(output)
            /\ \A k \in 1..Len(output) :
                  output'[k] = IF IndexIn(LowerLetters, output[k]) > 0
                               THEN UpperLetters[IndexIn(LowerLetters, output[k])]
                               ELSE output[k]]_vars
    /\ [][StepOn({"l"}) =>
            /\ Len(output') = Len(output)
            /\ \A k \in 1..Len(output) :
                  output'[k] = IF IndexIn(UpperLetters, output[k]) > 0
                               THEN LowerLetters[IndexIn(UpperLetters, output[k])]
                               ELSE output[k]]_vars
    /\ [](\A op \in {"u", "l"} :
            (apc = "done" /\ rule = <<op>>)
                => /\ apply_hashcat_rule(result, <<op>>) = result
                   /\ apply_hashcat_rule(word, <<op, " ", op>>) = result)

C18_Witness ==
    /\ apc = "done"
    /\ word = <<"a","B">>
    /\ rule = <<"u">>
    /\ result = <<"A","B">>

\* C19: 'r' reverses the order of the characters; reversing twice gives
\* the word back, apply(apply(w, 'r'), 'r') = w, which is also the result
\* of the two-instruction rule 'r r'.
C19_Reverse ==
    /\ [][StepOn({"r"}) =>
            /\ Len(output') = Len(output)
            /\ \A k \in 1..Len(output) :
                  output'[k] = output[Len(output) + 1 - k]]_vars
    /\ []((apc = "done" /\ rule = <<"r">>)
            => /\ apply_hashcat_rule(result, <<"r">>) = word
               /\ apply_hashcat_rule(word, <<"r"," ","r">>) = word)
    /\ []((apc = "done" /\ rule = <<"r"," ","r">>) => result = word)

C19_Witness ==
    /\ apc = "done"
    /\ word = <<"a","B","1">>
    /\ rule = <<"r">>
    /\ result = <<"1","B","a">>

\* C20: 't' turns every lowercase letter into its uppercase letter and
\* every uppercase letter into its lowercase letter; characters that are
\* no letters, the order and the length stay as they are.
C20_ToggleAll ==
    /\ [][StepOn({"t"}) =>
            /\ Len(output') = Len(output)
            /\ \A k \in 1..Len(output) : output'[k] = SwapCase(output[k])]_vars
    /\ []((apc = "done" /\ word = <<"a","B","1">> /\ rule = <<"t">>)
            => result = <<"A","b","1">>)

C20_Witness ==
    /\ apc = "done"
    /\ word = <<"a","B","1">>
    /\ rule = <<"t">>
    /\ result = <<"A","b","1">>

\* C11: invocations that share the rule list and run interleaved each
\* return what the same call returns when run alone; none raises; a step
\* of one invocation changes no other invocation's frame, no invocation's
\* word, and not the shared rule list.
C11_Isolation ==
    /\ [](\A t \in Invocations :
            LET f == frames[t] IN
            /\ f.pc # "raised"
            /\ f.pc = "done" => f.result = apply_hashcat_rule(f.word, f.rule)
            /\ f.pc = "loop" =>
                  /\ f.parts = split(f.rule)
                  /\ f.output = run_parts(f.word,
                                          SubSeq(f.parts, 1, f.i - 1), 1).out)
    /\ [][/\ hashcat_rules' = hashcat_rules
          /\ \A t, u \in Invocations :
                (t # u /\ frames'[t] # frames[t]) => frames'[u] = frames[u]
          /\ \A t \in Invocations :
                (frames[t].pc = "loop" /\ frames'[t].pc # "idle")
                    => /\ frames'[t].word = frames[t].word
                       /\ frames'[t].rule = frames[t].rule]_vars

\* One invocation has returned while another is in the middle of its rule.
C11_Witness ==
    \E t, u \in Invocations :
        /\ t # u
        /\ frames[t].pc = "done"
        /\ frames[t].word = <<"a","B">>
        /\ frames[t].rule = <<"$","1"," ","r">>
        /\ frames[t].result = <<"1","B","a">>
        /\ frames[u].pc = "loop"
        /\ frames[u].word = <<"B","1">>
        /\ frames[u].i = 2

\* C21: '[' removes exactly the first and ']' exactly the last character
\* of the working word and keeps the others in order; on an empty working
\* word each changes nothing and raises nothing.
C21_RemoveEnds ==
    /\ [][StepOn({"["}) =>
            /\ apc' = "loop"
            /\ IF output = <<>> THEN output' = <<>>
               ELSE /\ Len(output') = Len(output) - 1
                    /\ \A k \in 1..Len(output') : output'[k] = output[k + 1]]_vars
    /\ [][StepOn({"]"}) =>
            /\ apc' = "loop"
            /\ IF output = <<>> THEN output' = <<>>
               ELSE /\ Len(output') = Len(output) - 1
                    /\ \A k \in 1..Len(output') : output'[k] = output[k]]_vars
    /\ []((apc = "done" /\ word = Alice /\ rule \in {<<"[">>, <<"]">>})
            => result = IF rule = <<"[">> THEN <<"l","i","c","e">>
                        ELSE <<"a","l","i","c">>)

\* 'a' with '[ ]': the second instruction met the empty working word.
C21_Witness ==
    /\ apc = "done"
    /\ word = <<"a">>
    /\ rule = <<"["," ","]">>
    /\ result = <<>>

\* The number of maximal runs of non-whitespace characters of s.
NumTokens(s) ==
    Cardinality({k \in 1..Len(s) :
                    ~isspace(s[k]) /\ (k = 1 \/ isspace(s[k - 1]))})

RuleCallStep == dpc = "rules" /\ apc = "idle" /\ apc' # "idle"

RuleTakeStep == dpc = "rules" /\ apc = "done" /\ apc' = "idle"

RuleSkipStep == /\ dpc = "rules" /\ dpc' = "rules"
                /\ apc = "idle" /\ apc' = "idle"
                /\ bi' # bi

RulePhaseEnd == dpc = "rules" /\ dpc' = "returned"

Bob7 == <<"b","o","b","7">>

\* C22: the rule phase applies the rules of the rule list in list order,
\* from the first to the last, to every seed it selects, and appends a
\* result to the candidates only when it is non-empty and differs from
\* the seed; nothing else is appended during the rule phase.
C22_EveryRuleInOrder ==
    /\ [][(dpc # "rules" /\ dpc' = "rules") => (bi' = 1 /\ ri' = 1)]_vars
    /\ [][RuleCallStep =>
            /\ ri \in 1..Len(hashcat_rules)
            /\ word' = bases[bi]
            /\ rule' = hashcat_rules[ri]
            /\ cand' = cand /\ bi' = bi /\ ri' = ri]_vars
    /\ [][RuleTakeStep =>
            /\ cand' = IF result # <<>> /\ result # bases[bi]
                       THEN cand \o <<result>> ELSE cand
            /\ IF ri < Len(hashcat_rules)
               THEN ri' = ri + 1 /\ bi' = bi
               ELSE ri' = 1 /\ bi' = bi + 1]_vars
    /\ [][RuleSkipStep =>
            /\ ri = 1 /\ ri' = 1
            /\ bi' = bi + 1
            /\ cand' = cand]_vars
    /\ [][RulePhaseEnd => (bi = Len(bases) + 1 /\ ri = 1)]_vars
    /\ [][(dpc = "rules" /\ dpc' = "rules" /\ apc # "done")
            => cand' = cand]_vars

\* All of '$1', 'c' applied to bob7, alice, Alice: five results were
\* appended after the common passwords, 'c' of Alice was not.
C22_Witness ==
    /\ dpc = "rules"
    /\ apc = "idle"
    /\ hashcat_rules = << <<"$","1">>, <<"c">> >>
    /\ bases = <<Bob7, Alice, <<"A","l","i","c","e">> >>
    /\ bi = 4
    /\ Len(cand) > 6
    /\ SubSeq(cand, Len(cand) - 5, Len(cand))
         = << <<"q","w","e","r","t","y">>,
              Bob7 \o <<"1">>, <<"B","o","b","7">>,
              Alice \o <<"1">>, <<"A","l","i","c","e">>,
              <<"A","l","i","c","e","1">> >>

\* The index of the first occurrence of x in s.
FirstIdx(s, x) ==
    CHOOSE k \in 1..Len(s) : s[k] = x /\ \A j \in 1..(k - 1) : s[j] # x

\* The distinct candidates of acceptable length.
Survivors(cs) == {cs[k] : k \in {j \in 1..Len(cs) :
                                    6 <= Len(cs[j]) /\ Len(cs[j]) <= 20}}

\* C24: generate_guesses returns the first max_guesses of the distinct
\* candidates of length 6 to 20, in the order of their first occurrence in
\* the combined candidate list, each once.
C24_GuessList ==
    [][RulePhaseEnd =>
        LET g == guesses'
            S == Survivors(cand)
        IN  /\ \A a, b \in 1..Len(g) : a # b => g[a] # g[b]
            /\ \A a \in 1..Len(g) :
                  /\ 6 <= Len(g[a]) /\ Len(g[a]) <= 20
                  /\ \E k \in 1..Len(cand) : cand[k] = g[a]
            /\ \A a, b \in 1..Len(g) :
                  a < b => FirstIdx(cand, g[a]) < FirstIdx(cand, g[b])
            /\ Len(g) <= max_guesses
            /\ Len(g) = IF Cardinality(S) < max_guesses
                        THEN Cardinality(S) ELSE max_guesses
            /\ \A x \in S :
                  (\A a \in 1..Len(g) : g[a] # x)
                     => \A a \in 1..Len(g) :
                           FirstIdx(cand, g[a]) < FirstIdx(cand, x)]_vars

\* max_guesses = 2 and the user alice/Bob7: of the many survivors the two
\* that occur first are returned.
C24_Witness ==
    /\ dpc = "returned"
    /\ max_guesses = 2
    /\ hashcat_rules # <<>>
    /\ guesses = <<Alice \o <<"1","2","3">>, Alice \o <<"!">> >>

\* The distinct email, name and account variants of the call.
SeedPool(inf) ==
    ToSet(inf.email_v) \cup ToSet(inf.name_v)
    \cup (IF inf.account # <<>>
          THEN {[k \in 1..Len(inf.account) |-> lower(inf.account[k])]}
          ELSE {})

\* C25: the seeds of the rule phase are the shortest distinct words among
\* the email, name and account variants, at most 10 of them; the
\* interpreter is called only on seeds longer than 3 characters, never on
\* the empty word; and with an empty rule list the rule phase calls
\* nothing and adds no candidate.
C25_SeedSet ==
    /\ [][(dpc # "rules" /\ dpc' = "rules") =>
            LET b    == bases'
                pool == SeedPool(info')
            IN  IF hashcat_rules = <<>> THEN b = <<>>
                ELSE /\ Len(b) <= 10
                     /\ Len(b) = IF Cardinality(pool) < 10
                                 THEN Cardinality(pool) ELSE 10
                     /\ \A a \in 1..Len(b) : b[a] \in pool
                     /\ \A a, c \in 1..Len(b) : a # c => b[a] # b[c]
                     /\ \A a, c \in 1..Len(b) : a < c => Len(b[a]) <= Len(b[c])
                     /\ \A x \in pool :
                           (\A a \in 1..Len(b) : b[a] # x)
                              => \A a \in 1..Len(b) : Len(b[a]) <= Len(x)]_vars
    /\ [][RuleCallStep =>
            /\ \E a \in 1..Len(bases) : word' = bases[a]
            /\ word' # <<>>
            /\ Len(word') > 3]_vars
    /\ [][(dpc = "rules" /\ hashcat_rules = <<>>)
            => (apc' = "idle" /\ cand' \in {cand, <<>>}
                  /\ (cand' # cand => dpc' = "returned"))]_vars
    /\ [][(dpc = "rules" /\ dpc' = "rules") => bases' = bases]_vars

\* Fourteen name variants: the two of length 3 and the six of length 4
\* are among the ten seeds, four of the six of length 5 are not; the
\* phase has passed the two short seeds and is at the third.
C25_Witness ==
    /\ dpc = "rules"
    /\ Cardinality(SeedPool(info)) = 14
    /\ Len(bases) = 10
    /\ Len(bases[2]) = 3
    /\ Len(bases[3]) = 4
    /\ Len(bases[10]) = 5
    /\ bi = 3
    /\ apc = "loop"
    /\ word = bases[3]

\* The positions of s at which a run of non-whitespace characters starts.
RunStarts(s) == {k \in 1..Len(s) : ~isspace(s[k]) /\ (k = 1 \/ isspace(s[k - 1]))}

\* The n-th run of non-whitespace characters of s.
NthRun(s, n) ==
    LET st == CHOOSE k \in RunStarts(s) :
                 Cardinality({j \in RunStarts(s) : j < k}) = n - 1
        en == CHOOSE e \in st..Len(s) :
                 /\ \A j \in st..e : ~isspace(s[j])
                 /\ (e = Len(s) \/ isspace(s[e + 1]))
    IN  SubSeq(s, st, en)

\* C26: the instructions of a rule are exactly its maximal runs of
\* non-whitespace characters, in order (no empty instruction arises from
\* repeated spaces or tabs), and each is executed as opcode = first
\* character, argument = the rest, whatever the opcode is.
C26_Parsing ==
    /\ [](apc = "loop" =>
            /\ Len(parts) = NumTokens(rule)
            /\ \A n \in 1..Len(parts) :
                  /\ parts[n] # <<>>
                  /\ \A k \in 1..Len(parts[n]) : ~isspace(parts[n][k])
                  /\ n <= NumTokens(rule) => parts[n] = NthRun(rule, n))
    /\ [][(apc = "loop" /\ i <= Len(parts) /\ parts[i] # <<>>) =>
            /\ apc' = "loop"
            /\ output' = exec_cmd(output, Head(parts[i]),
                                  Tail(parts[i])).out]_vars

\* ' u  r<tab>': two instructions, both executed.
C26_Witness ==
    /\ apc = "done"
    /\ word = <<"a","B","1">>
    /\ rule = <<" ","u"," "," ","r","\t">>
    /\ result = <<"1","B","A">>

C28_FirstArgumentOnly ==
    /\ [](apc = "done" =>
            LET ts == split(rule) IN
            Len(ts) = 1 =>
               /\ Len(ts[1]) > 2
                    => result = apply_hashcat_rule(word, SubSeq(ts[1], 1, 2))
               /\ ts[1][1] \in NoArgOps
                    => result = apply_hashcat_rule(word, <<ts[1][1]>>))
    /\ []((apc = "done" /\ word = Alice) =>
            /\ rule = <<"$","X","y">> => result = Alice \o <<"X">>
            /\ rule = <<"^","X","y">> => result = <<"X">> \o Alice
            /\ rule = <<"T","1","x">> => result = <<"a","L","i","c","e">>
            /\ rule = <<"D","1","2">> => result = <<"a">> \o Alice)
    /\ []((apc = "done" /\ word = <<"A","L","I","C","E">>
                        /\ rule = <<"l","x","y","z">>) => result = Alice)

C28_Witness ==
    /\ apc = "done"
    /\ word = Alice
    /\ rule = <<"D","1","2">>
    /\ result = <<"a","a","l","i","c","e">>

\* A finished call on a non-empty word whose rule is the two tokens
\* <<op1>> \o x and <<op2>> \o y for some x, y of the given lengths.
DoneTwo(op1, n1, op2, n2) ==
    /\ apc = "done"
    /\ word # <<>>
    /\ Len(split(rule)) = 2
    /\ split(rule)[1][1] = op1 /\ Len(split(rule)[1]) = n1 + 1
    /\ split(rule)[2][1] = op2 /\ Len(split(rule)[2]) = n2 + 1

\* C29: for a non-empty word w, '$X ]' and '^X [' return w; '] $X'
\* returns w exactly when w ends with X, and '[ ^X' returns w exactly when
\* w begins with X.
C29_RoundTrips ==
    /\ [](DoneTwo("$", 1, "]", 0) => result = word)
    /\ [](DoneTwo("^", 1, "[", 0) => result = word)
    /\ [](DoneTwo("]", 0, "$", 1) =>
            (result = word <=> word[Len(word)] = split(rule)[2][2]))
    /\ [](DoneTwo("[", 0, "^", 1) =>
            (result = word <=> word[1] = split(rule)[2][2]))

\* 'aB' with '[ ^a': the removed first character is put back.
C29_Witness ==
    /\ apc = "done"
    /\ word = <<"a","B">>
    /\ rule = <<"["," ","^","a">>
    /\ result = <<"a","B">>

\* What the instructions do to a working word that is empty.
OnEmptyWord ==
    /\ [][(StepOn({"$", "^", "+", "-"}) /\ output = <<>>) =>
            output' = IF Len(parts[i]) > 1 THEN <<parts[i][2]>> ELSE <<>>]_vars
    /\ [][(StepOn({"c", "C", "[", "]", "T", "D"}) /\ output = <<>>) =>
            (output' = <<>> /\ apc' = "loop")]_vars
    /\ []((apc = "done" /\ word = <<"a">> /\ rule = <<"["," ","$","1">>)
            => result = <<"1">>)

\* C30 as written: on an empty working word '$X'/'^X' still add their
\* character and c, C, '[', ']', T, D do nothing, and the result of the
\* remaining instructions is what apply returns for the current word as
\* its input, also when that word is empty.
C30_Original ==
    /\ OnEmptyWord
    /\ []((apc = "done" /\ word # <<>>) =>
            \A k \in 0..Len(split(rule)) :
               LET ts  == split(rule)
                   mid == run_parts(word, SubSeq(ts, 1, k), 1).out
                   r2  == JoinTokens(SubSeq(ts, k + 1, Len(ts)))
               IN  result = apply_hashcat_rule(mid, r2))

\* C30: on an empty working word '$X'/'^X' still add their character and
\* c, C, '[', ']', T, D do nothing; the result of the remaining
\* instructions is what apply returns for the current word as its input
\* when that word is non-empty, but an empty input word returns '' with no
\* instruction executed: 'a' with '[ $1' gives '1', '' with '$1' gives ''.
C30_MidRuleEmpty ==
    /\ OnEmptyWord
    /\ []((apc = "done" /\ word # <<>>) =>
            \A k \in 0..Len(split(rule)) :
               LET ts  == split(rule)
                   mid == run_parts(word, SubSeq(ts, 1, k), 1).out
                   r2  == JoinTokens(SubSeq(ts, k + 1, Len(ts)))
               IN  mid # <<>> => result = apply_hashcat_rule(mid, r2))
    /\ [](DoneTwo("[", 0, "$", 1) /\ Len(word) = 1 =>
            /\ result = <<split(rule)[2][2]>>
            /\ apply_hashcat_rule(<<>>, split(rule)[2]) = <<>>)
    /\ []((apc = "done" /\ word = <<>>) => result = <<>>)

C30_Witness ==
    /\ apc = "done"
    /\ word = <<"a">>
    /\ rule = <<"[","\t","$","1">>
    /\ result = <<"1">>

====
